---- MODULE Spec2Model ----
(***************************************************************************)
(* leekspin.torversions: parsing and comparison of Tor version numbers.    *)
(*                                                                         *)
(* Python strings are modelled as sequences of one-character strings, so   *)
(* that str.split, str.find and the lexical order of cmp() are computed    *)
(* character by character.  An instance is modelled by its __dict__: a     *)
(* function whose domain is the set of attributes that have been assigned. *)
(* The semantics are those of Python 2, the interpreter that provides the  *)
(* builtins xrange and cmp that the module calls.  There comparable()      *)
(* returns the class unchanged and the interpreter derives ==, !=, <, <=,  *)
(* >, >= from __cmp__ by the mapping that lines 85-119 spell out; the six  *)
(* operations are modelled from those lines.                               *)
(*                                                                         *)
(* The state machine starts from the module as loaded, with the class      *)
(* Version defined and decorated.  Loading itself is not modelled: the     *)
(* decorator on class _inf (line 52) is evaluated before comparable is     *)
(* bound (line 72), so every property below is a property of the class     *)
(* and function bodies as written, once they are defined.                  *)
(***************************************************************************)
EXTENDS Integers, Sequences, FiniteSets, TLC

VARIABLES objs, args, last

vars == <<objs, args, last>>

(***************************************************************************)
(* Bounds and input alphabets                                              *)
(***************************************************************************)

\* largest number of dot-separated tokens in a generated version string
MaxTokens == 5

\* the names a caller binds Version instances to
Slots == {"a", "b"}

\* the names bound in the ordering-law specification
OrderSlots == {"a", "b", "c"}

\* Python's None, as a package argument (no package label is the text "None")
None == "None"

\* the package arguments a caller passes
Packages == {None, "", "tor", "obfs4"}

(***************************************************************************)
(* Characters and strings                                                  *)
(***************************************************************************)

Digits == <<"0", "1", "2", "3", "4", "5", "6", "7", "8", "9">>

Letters == <<"a", "b", "c", "d", "e", "f", "g", "h", "i", "j", "k", "l", "m",
             "n", "o", "p", "q", "r", "s", "t", "u", "v", "w", "x", "y", "z">>

Range(s) == {s[i] : i \in 1..Len(s)}

PosIn(s, ch) == CHOOSE i \in 1..Len(s) : s[i] = ch

\* the code point of a character (ASCII): '-' 45, '.' 46, '0' 48, 'a' 97
ord(ch) ==
    IF ch = "-" THEN 45
    ELSE IF ch = "." THEN 46
    ELSE IF ch \in Range(Digits) THEN 47 + PosIn(Digits, ch)
    ELSE 96 + PosIn(Letters, ch)

\* str.find(sub) for a one-character sub: lowest 0-based index, or -1
find(s, ch) ==
    IF \E i \in 1..Len(s) : s[i] = ch
    THEN (CHOOSE i \in 1..Len(s) : s[i] = ch /\ \A j \in 1..(i-1) : s[j] # ch) - 1
    ELSE -1

\* str.split(sep) for a one-character sep: always at least one token
RECURSIVE split(_, _)
split(s, sep) ==
    LET i == find(s, sep)
    IN  IF i = -1 THEN <<s>>
        ELSE <<SubSeq(s, 1, i)>> \o split(SubSeq(s, i + 2, Len(s)), sep)

\* sep.join(tokens): builds the input strings and states the properties
RECURSIVE join(_, _)
join(toks, sep) ==
    IF Len(toks) = 0 THEN <<>>
    ELSE IF Len(toks) = 1 THEN toks[1]
    ELSE toks[1] \o <<sep>> \o join(Tail(toks), sep)

\* cmp() of two strings: code point by code point, a proper prefix is less
RECURSIVE cmpStr(_, _)
cmpStr(s, t) ==
    IF Len(s) = 0 /\ Len(t) = 0 THEN 0
    ELSE IF Len(s) = 0 THEN -1
    ELSE IF Len(t) = 0 THEN 1
    ELSE IF ord(Head(s)) < ord(Head(t)) THEN -1
    ELSE IF ord(Head(s)) > ord(Head(t)) THEN 1
    ELSE cmpStr(Tail(s), Tail(t))

\* int(s) succeeds: a non-empty string of decimal digits (the code never
\* converts a field; used to state the numeric comparison it does not make)
IsInt(s) == Len(s) > 0 /\ \A i \in 1..Len(s) : s[i] \in Range(Digits)

RECURSIVE ToInt(_)
ToInt(s) ==
    IF Len(s) = 0 THEN 0
    ELSE 10 * ToInt(SubSeq(s, 1, Len(s) - 1)) + (PosIn(Digits, s[Len(s)]) - 1)

(***************************************************************************)
(* Module constants                                                        *)
(***************************************************************************)

SERVER_VERSIONS ==
    << <<"0",".","2",".","2",".","3","9">>,                          \* 0.2.2.39
       <<"0",".","2",".","3",".","2","4","-","r","c">>,              \* 0.2.3.24-rc
       <<"0",".","2",".","3",".","2","5">>,                          \* 0.2.3.25
       <<"0",".","2",".","4",".","5","-","a","l","p","h","a">>,      \* 0.2.4.5-alpha
       <<"0",".","2",".","4",".","6","-","a","l","p","h","a">>,      \* 0.2.4.6-alpha
       <<"0",".","2",".","4",".","7","-","a","l","p","h","a">>,      \* 0.2.4.7-alpha
       <<"0",".","2",".","4",".","8","-","a","l","p","h","a">>,      \* 0.2.4.8-alpha
       <<"0",".","2",".","4",".","9","-","a","l","p","h","a">>,      \* 0.2.4.9-alpha
       <<"0",".","2",".","4",".","1","0","-","a","l","p","h","a">>,  \* 0.2.4.10-alpha
       <<"0",".","2",".","4",".","1","1","-","a","l","p","h","a">>,  \* 0.2.4.11-alpha
       <<"0",".","2",".","4",".","1","2","-","a","l","p","h","a">>,  \* 0.2.4.12-alpha
       <<"0",".","2",".","4",".","1","4","-","a","l","p","h","a">>,  \* 0.2.4.14-alpha
       <<"0",".","2",".","4",".","1","5","-","r","c">>,              \* 0.2.4.15-rc
       <<"0",".","2",".","4",".","1","6","-","r","c">>,              \* 0.2.4.16-rc
       <<"0",".","2",".","4",".","1","7","-","r","c">>,              \* 0.2.4.17-rc
       <<"0",".","2",".","4",".","1","8","-","r","c">>,              \* 0.2.4.18-rc
       <<"0",".","2",".","4",".","1","9">>,                          \* 0.2.4.19
       <<"0",".","2",".","4",".","2","0">>,                          \* 0.2.4.20
       <<"0",".","2",".","5",".","1","-","a","l","p","h","a">> >>    \* 0.2.5.1-alpha

\* the singleton instance of class _inf, as an item of a compared tuple
_inf == <<"_inf">>

\* the same singleton, as the operand of a comparison
InfInstance == [__class__ |-> "_inf"]

\* Python's None, as the value of an attribute
NoneValue == <<"None">>

\* the class of an instance
ClassOf(o) == o["__class__"]

(***************************************************************************)
(* Outcomes of a call                                                      *)
(***************************************************************************)

Return(v) == [kind |-> "return", val |-> v]

Raise(e) == [kind |-> "raise", exc |-> e]

NotImplemented == [kind |-> "NotImplemented"]

(***************************************************************************)
(* class _inf                                                              *)
(***************************************************************************)

\* _inf.__cmp__(other): 0 if other is the singleton, 1 otherwise
inf__cmp__(other) == IF other = _inf THEN 0 ELSE 1

(***************************************************************************)
(* The builtin cmp() on the values Version.__cmp__ hands it                *)
(***************************************************************************)

\* a comparison that ranks two items by their integer values whenever both
\* parse as integers, and lexically otherwise
cmpNumericWhenPossible(x, y) ==
    IF x = _inf THEN inf__cmp__(y)
    ELSE IF y = _inf THEN 0 - inf__cmp__(x)
    ELSE IF IsInt(x) /\ IsInt(y)
    THEN (IF ToInt(x) < ToInt(y) THEN -1 ELSE IF ToInt(x) > ToInt(y) THEN 1 ELSE 0)
    ELSE cmpStr(x, y)

\* cmp(x, y): an _inf operand decides through _inf.__cmp__ (reflected when
\* it is the right operand), two strings compare lexically
cmp(x, y) ==
    IF x = _inf THEN inf__cmp__(y)
    ELSE IF y = _inf THEN 0 - inf__cmp__(x)
    ELSE cmpStr(x, y)

\* cmp() of two tuples: the first pair of unequal items decides, else the
\* lengths do
cmpTuple(s, t) ==
    LET n == IF Len(s) < Len(t) THEN Len(s) ELSE Len(t)
        D == {i \in 1..n : s[i] # t[i]}
    IN  IF D # {}
        THEN LET i == CHOOSE j \in D : \A k \in D : j <= k
             IN  cmp(s[i], t[i])
        ELSE IF Len(s) < Len(t) THEN -1
        ELSE IF Len(s) > Len(t) THEN 1
        ELSE 0

(***************************************************************************)
(* class Version                                                           *)
(***************************************************************************)

FieldNames == <<"major", "minor", "micro", "prerelease">>

\* a constructor that assigns the tokens from the front: major first
Version__init__FromFront(version, package) ==
    LET components == split(version, ".")
        n == Len(components)
        attrs == {"__class__"} \cup {FieldNames[i] : i \in {j \in 1..4 : j <= n}}
                   \cup (IF package \notin {None, ""} THEN {"package"} ELSE {})
    IN  [name \in attrs |->
            IF name = "__class__" THEN "Version"
            ELSE IF name = "package" THEN package
            ELSE components[PosIn(FieldNames, name)]]

\* a constructor that pops in the order major, minor, micro, prerelease
Version__init__MajorFirst(version, package) ==
    LET components == split(version, ".")
        n == Len(components)
        attrs == {"__class__"} \cup {FieldNames[i] : i \in {j \in 1..4 : j <= n}}
                   \cup (IF package \notin {None, ""} THEN {"package"} ELSE {})
    IN  [name \in attrs |->
            IF name = "__class__" THEN "Version"
            ELSE IF name = "package" THEN package
            ELSE components[n + 1 - PosIn(FieldNames, name)]]

\* Version.__init__(version, package): the instance's __dict__ afterwards.
\* The four pops assign prerelease, micro, minor, major from the end of the
\* token list; the first pop from the emptied list raises IndexError, which
\* is swallowed and leaves the remaining attributes unassigned.  The locals
\* set to '' on line 155 are never stored on the instance.
Version__init__(version, package) ==
    LET components == split(version, ".")
        n == Len(components)
        popped == IF n > 0
                  THEN {FieldNames[i] : i \in {j \in 1..4 : n - (4 - j) >= 1}}
                  ELSE {}
        fieldIndex(name) == n - (4 - PosIn(FieldNames, name))
        attrs == {"__class__"} \cup popped
                   \cup (IF package \notin {None, ""} THEN {"package"} ELSE {})
    IN  [name \in attrs |->
            IF name = "__class__" THEN "Version"
            ELSE IF name = "package" THEN package
            ELSE components[fieldIndex(name)]]

\* the warning printed by Version.__init__ when the string has no dot
PrintsWarning(version) == find(version, ".") = -1

\* a comparison that reads the version fields before it checks the packages
Version__cmp__FieldsFirst(self, other) ==
    IF ClassOf(other) # ClassOf(self) THEN NotImplemented
    ELSE IF ~ ({"major", "minor", "micro", "prerelease", "package"} \subseteq DOMAIN self
               /\ {"major", "minor", "micro", "prerelease", "package"} \subseteq DOMAIN other)
    THEN Raise("AttributeError")
    ELSE IF self["package"] # other["package"]
    THEN Raise("IncomparableVersions")
    ELSE Return(cmpTuple(
           <<self["major"], self["minor"], self["micro"], self["prerelease"]>>,
           <<other["major"], other["minor"], other["micro"], other["prerelease"]>>))

\* Version.__cmp__(self, other)
Version__cmp__(self, other) ==
    IF ClassOf(other) # ClassOf(self) THEN NotImplemented
    ELSE IF "package" \notin DOMAIN self \/ "package" \notin DOMAIN other
    THEN Raise("AttributeError")
    ELSE IF self["package"] # other["package"]
    THEN Raise("IncomparableVersions")
    ELSE IF "prerelease" \notin DOMAIN self \/ "prerelease" \notin DOMAIN other
    THEN Raise("AttributeError")
    ELSE LET prerelease == IF self["prerelease"] = NoneValue
                           THEN _inf ELSE self["prerelease"]
             otherpre   == IF other["prerelease"] = NoneValue
                           THEN _inf ELSE other["prerelease"]
         IN  IF {"major", "minor", "micro"} \subseteq DOMAIN self
                /\ {"major", "minor", "micro"} \subseteq DOMAIN other
             THEN Return(cmpTuple(
                    <<self["major"], self["minor"], self["micro"], prerelease>>,
                    <<other["major"], other["minor"], other["micro"], otherpre>>))
             ELSE Raise("AttributeError")

\* the names bound at module level when a method body runs
ModuleGlobals ==
    {"sys", "SERVER_VERSIONS", "_PY3", "IncomparableVersions", "_inf",
     "comparable", "Version"}

\* Version.base(): the call of the bare name getPrefixedPrerelease is a
\* lookup among the module globals, where methods are not found
Version_base(self) ==
    IF "getPrefixedPrerelease" \notin ModuleGlobals
    THEN Raise("NameError")
    ELSE Raise("TypeError")

(***************************************************************************)
(* comparable: the six operations derived from __cmp__                     *)
(***************************************************************************)

Derived(c, result) ==
    IF c.kind = "return" THEN Return(result) ELSE c

__eq__(self, other) ==
    LET c == Version__cmp__(self, other) IN Derived(c, c.val = 0)

__ne__(self, other) ==
    LET c == Version__cmp__(self, other) IN Derived(c, c.val # 0)

__lt__(self, other) ==
    LET c == Version__cmp__(self, other) IN Derived(c, c.val < 0)

\* a less-or-equal that maps the three-way result like less-than
__le__Strict(self, other) ==
    LET c == Version__cmp__(self, other) IN Derived(c, c.val < 0)

__le__(self, other) ==
    LET c == Version__cmp__(self, other) IN Derived(c, c.val <= 0)

__gt__(self, other) ==
    LET c == Version__cmp__(self, other) IN Derived(c, c.val > 0)

__ge__(self, other) ==
    LET c == Version__cmp__(self, other) IN Derived(c, c.val >= 0)

OpNames == {"cmp", "eq", "ne", "lt", "le", "gt", "ge"}

\* every comparison of self with other, by name
AllComparisons(self, other) ==
    [o \in OpNames |->
        CASE o = "cmp" -> Version__cmp__(self, other)
          [] o = "eq"  -> __eq__(self, other)
          [] o = "ne"  -> __ne__(self, other)
          [] o = "lt"  -> __lt__(self, other)
          [] o = "le"  -> __le__(self, other)
          [] o = "gt"  -> __gt__(self, other)
          [] o = "ge"  -> __ge__(self, other)]

(***************************************************************************)
(* Inputs                                                                  *)
(***************************************************************************)

\* the numeric part of a generated last token
Nums == {<<"9">>, <<"1", "0">>}

\* the prerelease suffix of a generated last token
Suffixes == {<<"-", "r", "c">>}

\* generated last tokens: a number, bare or suffixed
PreTokens == Nums \cup {n \o s : n \in Nums, s \in Suffixes}

\* the k-token string  7. ... .7.0.2.<m>.<p>  cut to its last k tokens
Generated(k, m, p) ==
    join([i \in 1..k |->
            IF i = k THEN p
            ELSE IF i = k - 1 THEN m
            ELSE IF i = k - 2 THEN <<"2">>
            ELSE IF i = k - 3 THEN <<"0">>
            ELSE <<"7">>], ".")

GeneratedInputs ==
    {Generated(k, <<"4">>, p) : k \in 1..MaxTokens, p \in PreTokens}

ExampleInputs ==
    { <<"n","o","t","a","v","e","r","s","i","o","n">>,   \* notaversion
      <<>>,                                              \* the empty string
      <<"0",".","2",".","4",".","2","0","-","r","c">>,   \* 0.2.4.20-rc
      <<"0",".","2",".","1","0",".","1">>,               \* 0.2.10.1
      <<"0",".","2",".","9",".","1">> }                  \* 0.2.9.1

Inputs == Range(SERVER_VERSIONS) \cup GeneratedInputs \cup ExampleInputs

\* the version strings of the ordering-law specification: last tokens that
\* mix bare numbers with suffixed ones, and one string with too few tokens
OrderInputs ==
    {Generated(4, <<"4">>, p) :
        p \in PreTokens \cup {<<"5","-","a","l","p","h","a">>, <<"2","0">>}}
    \cup {Generated(4, <<"1","0">>, <<"9">>), Generated(4, <<"9">>, <<"9">>),
          Generated(2, <<"4">>, <<"9">>)}

\* the package argument of the ordering-law specification
OrderPackages == {"tor"}

(***************************************************************************)
(* State machine                                                           *)
(***************************************************************************)

Bind(f, x, v) == [y \in DOMAIN f \cup {x} |-> IF y = x THEN v ELSE f[y]]

Init ==
    /\ objs = [x \in {} |-> 0]
    /\ args = [x \in {} |-> 0]
    /\ last = [op |-> "none"]

\* x = Version(version, package); a name is bound once, and the instance
\* is not changed afterwards
Construct(x, version, package) ==
    /\ x \notin DOMAIN objs
    /\ objs' = Bind(objs, x, Version__init__(version, package))
    /\ args' = Bind(args, x, [version |-> version, package |-> package])
    /\ last' = [op |-> "init", x |-> x, printed |-> PrintsWarning(version)]

\* cmp(x, y), x == y, x != y, x < y, x <= y, x > y, x >= y
Compare(x, y) ==
    /\ x \in DOMAIN objs
    /\ y \in DOMAIN objs
    /\ last' = [op |-> "compare", x |-> x, y |-> y,
                res |-> AllComparisons(objs[x], objs[y])]
    /\ UNCHANGED <<objs, args>>

\* the same comparisons with the _inf singleton as the other operand
CompareOther(x) ==
    /\ x \in DOMAIN objs
    /\ last' = [op |-> "compare_other", x |-> x,
                res |-> AllComparisons(objs[x], InfInstance)]
    /\ UNCHANGED <<objs, args>>

\* x.base()
Base(x) ==
    /\ x \in DOMAIN objs
    /\ last' = [op |-> "base", x |-> x, out |-> Version_base(objs[x])]
    /\ UNCHANGED <<objs, args>>

\* x < x, x < y, y < x, y < z, x < z
CompareTriple(x, y, z) ==
    /\ {x, y, z} \subseteq DOMAIN objs
    /\ last' = [op |-> "triple", x |-> x, y |-> y, z |-> z,
                xx |-> __lt__(objs[x], objs[x]),
                xy |-> __lt__(objs[x], objs[y]),
                yx |-> __lt__(objs[y], objs[x]),
                yz |-> __lt__(objs[y], objs[z]),
                xz |-> __lt__(objs[x], objs[z])]
    /\ UNCHANGED <<objs, args>>

Next ==
    \/ \E x \in Slots, version \in Inputs, package \in Packages :
          Construct(x, version, package)
    \/ \E x \in Slots, y \in Slots : Compare(x, y)
    \/ \E x \in Slots : CompareOther(x)
    \/ \E x \in Slots : Base(x)

Spec == Init /\ [][Next]_vars

NextOrder ==
    \/ \E x \in OrderSlots, version \in OrderInputs, package \in OrderPackages :
          Construct(x, version, package)
    \/ \E x \in OrderSlots, y \in OrderSlots, z \in OrderSlots :
          CompareTriple(x, y, z)

SpecOrder == Init /\ [][NextOrder]_vars

(***************************************************************************)
(* Vocabulary of the properties                                            *)
(***************************************************************************)

Returns(r, v) == r.kind = "return" /\ r.val = v

Raises(r, e) == r.kind = "raise" /\ r.exc = e

SameOutcome(r, c) ==
    /\ r.kind = c.kind
    /\ c.kind = "raise" => r.exc = c.exc

\* a package argument that is stored as a label
Truthy(package) == package \notin {None, ""}

\* the number of dot-separated tokens of a string
TokenCount(v) == Cardinality({i \in 1..Len(v) : v[i] = "."}) + 1

\* v is four numeric tokens
IsPlainRelease(v) ==
    /\ TokenCount(v) = 4
    /\ \A t \in Range(split(v, ".")) : IsInt(t)

\* w is v followed by a non-empty suffix that stays in the last token
IsPrereleaseOf(w, v) ==
    /\ Len(w) > Len(v)
    /\ SubSeq(w, 1, Len(v)) = v
    /\ \A i \in (Len(v) + 1)..Len(w) : w[i] # "."
    /\ w[Len(v) + 1] \notin Range(Digits)

\* the last comparison was made between two versions of one stored package
ComparedSamePackage ==
    /\ last.op = "compare"
    /\ Truthy(args[last.x].package)
    /\ args[last.x].package = args[last.y].package

(***************************************************************************)
(* Properties                                                              *)
(***************************************************************************)

\* C1: a version 'M.m.u.N' compares greaterThan the version 'M.m.u.N<suffix>'
\* of the same package.
C1_ReleaseOutranksPrerelease ==
    (/\ ComparedSamePackage
     /\ IsPlainRelease(args[last.x].version)
     /\ IsPrereleaseOf(args[last.y].version, args[last.x].version))
    => Returns(last.res["gt"], TRUE)

\* C2: when the two package labels are different non-empty strings, the
\* three-way comparison and the six derived operations all fail with
\* IncomparableVersions, whatever the version fields are.
C2_CrossPackageRaises ==
    (/\ last.op = "compare"
     /\ Truthy(args[last.x].package)
     /\ Truthy(args[last.y].package)
     /\ args[last.x].package # args[last.y].package)
    => \A o \in OpNames : Raises(last.res[o], "IncomparableVersions")

C2_Witness ==
    /\ last.op = "compare"
    /\ args[last.x].package = "tor"
    /\ args[last.y].package = "obfs4"
    /\ TokenCount(args[last.x].version) < 4
    /\ Raises(last.res["lt"], "IncomparableVersions")

\* the pairs of the chain 0.2.3.25 < 0.2.4.5-alpha < 0.2.4.20 < 0.2.5.1-alpha
ChainPairs ==
    {<<SERVER_VERSIONS[3], SERVER_VERSIONS[4]>>,
     <<SERVER_VERSIONS[4], SERVER_VERSIONS[18]>>,
     <<SERVER_VERSIONS[18], SERVER_VERSIONS[19]>>}

\* each entry of SERVER_VERSIONS with the entry that follows it
AdjacentPairs ==
    {<<SERVER_VERSIONS[i], SERVER_VERSIONS[i + 1]>> :
        i \in 1..(Len(SERVER_VERSIONS) - 1)}

\* C3: the chain 0.2.3.25 < 0.2.4.5-alpha < 0.2.4.20 < 0.2.5.1-alpha holds,
\* and every entry of SERVER_VERSIONS compares lessThan the entry after it.
C3_ServerVersionsIncreasing ==
    (/\ ComparedSamePackage
     /\ <<args[last.x].version, args[last.y].version>>
            \in ChainPairs \cup AdjacentPairs)
    => Returns(last.res["lt"], TRUE)

\* C4: lessThan is a strict total order on the versions of one package:
\* irreflexive, asymmetric, transitive, and any two versions with different
\* fields are ordered one way or the other.
C4_StrictTotalOrder ==
    last.op = "triple" =>
        /\ ~ Returns(last.xx, TRUE)
        /\ Returns(last.xy, TRUE) => ~ Returns(last.yx, TRUE)
        /\ (Returns(last.xy, TRUE) /\ Returns(last.yz, TRUE))
              => Returns(last.xz, TRUE)
        /\ (/\ last.xy.kind = "return"
            /\ \E f \in Range(FieldNames) : objs[last.x][f] # objs[last.y][f])
              => (Returns(last.xy, TRUE) \/ Returns(last.yx, TRUE))

\* a chain x < y < z whose last tokens are '10', '5-alpha' and '9'
C4_Witness ==
    /\ last.op = "triple"
    /\ objs[last.x]["prerelease"] = <<"1", "0">>
    /\ objs[last.y]["prerelease"] = <<"5", "-", "a", "l", "p", "h", "a">>
    /\ objs[last.z]["prerelease"] = <<"9">>
    /\ objs[last.x]["micro"] = objs[last.y]["micro"]
    /\ objs[last.y]["micro"] = objs[last.z]["micro"]
    /\ Returns(last.xy, TRUE)
    /\ Returns(last.yz, TRUE)
    /\ Returns(last.xz, TRUE)

\* C5: for two versions of the same package the six derived operations are
\* the standard mappings of the one three-way result c (or fail exactly as
\* it fails), c is -1, 0 or 1, and exactly one of lessThan, equal,
\* greaterThan holds.
C5_DerivedAgreeWithCmp ==
    (/\ last.op = "compare"
     /\ args[last.x].package = args[last.y].package)
    => LET c == last.res["cmp"]
           r == last.res
       IN  IF c.kind = "return"
           THEN /\ c.val \in {-1, 0, 1}
                /\ Returns(r["eq"], c.val = 0)
                /\ Returns(r["ne"], c.val # 0)
                /\ Returns(r["lt"], c.val < 0)
                /\ Returns(r["le"], c.val <= 0)
                /\ Returns(r["gt"], c.val > 0)
                /\ Returns(r["ge"], c.val >= 0)
                /\ Cardinality({o \in {"lt", "eq", "gt"} : r[o].val}) = 1
           ELSE \A o \in OpNames : SameOutcome(r[o], c)

C5_Witness ==
    /\ ComparedSamePackage
    /\ Returns(last.res["cmp"], -1)
    /\ Returns(last.res["le"], TRUE)
    /\ Returns(last.res["ge"], FALSE)

\* C6 as stated: after construction from a string with no dot, each of
\* major, minor, micro and prerelease is absent or empty.
C6_NoDotLeavesAllFieldsEmpty ==
    \A x \in DOMAIN objs :
        find(args[x].version, ".") = -1
        => \A f \in Range(FieldNames) :
              f \notin DOMAIN objs[x] \/ objs[x][f] = <<>>

\* C6: construction from a string with no dot completes; major, minor and
\* micro are absent and prerelease holds the whole input text.
C6_NoDotFillsOnlyPrerelease ==
    \A x \in DOMAIN objs :
        find(args[x].version, ".") = -1
        => /\ {"major", "minor", "micro"} \cap DOMAIN objs[x] = {}
           /\ "prerelease" \in DOMAIN objs[x]
           /\ objs[x]["prerelease"] = args[x].version

C6_Witness ==
    /\ last.op = "init"
    /\ last.printed
    /\ args[last.x].version = <<"n","o","t","a","v","e","r","s","i","o","n">>
    /\ objs[last.x]["prerelease"] = args[last.x].version

\* C7: when the two package arguments are equal, the omitted, None and
\* empty package included, the three-way comparison and the six derived
\* operations return a result and raise nothing.
C7_SamePackageNeverRaises ==
    (/\ last.op = "compare"
     /\ args[last.x].package = args[last.y].package)
    => \A o \in OpNames : last.res[o].kind = "return"

\* C8: base() of the version parsed from a valid 4-field string v returns v.
C8_BaseRoundTrips ==
    (/\ last.op = "base"
     /\ args[last.x].version \in Range(SERVER_VERSIONS))
    => Returns(last.out, args[last.x].version)

\* the decision C9 describes for one field: numeric when both sides parse as
\* integers, lexical otherwise
FieldOrder(s, t) ==
    IF IsInt(s) /\ IsInt(t)
    THEN (IF ToInt(s) < ToInt(t) THEN -1 ELSE IF ToInt(s) > ToInt(t) THEN 1 ELSE 0)
    ELSE cmpStr(s, t)

\* C9: the first field that differs, in the order major, minor, micro,
\* prerelease, decides; numerically when it parses as an integer on both
\* sides, lexically otherwise.
C9_FirstDifferingFieldNumeric ==
    (/\ ComparedSamePackage
     /\ TokenCount(args[last.x].version) >= 4
     /\ TokenCount(args[last.y].version) >= 4)
    => LET a == objs[last.x]
           b == objs[last.y]
           D == {i \in 1..4 : a[FieldNames[i]] # b[FieldNames[i]]}
           first == CHOOSE i \in D : \A j \in D : i <= j
       IN  Returns(last.res["cmp"],
                   IF D = {} THEN 0
                   ELSE FieldOrder(a[FieldNames[first]], b[FieldNames[first]]))

\* the indices, in FieldNames, of the fields that x has
FieldsSet(x) == {i \in 1..4 : FieldNames[i] \in DOMAIN objs[x]}

\* the fields that x has, joined with dots in the order of FieldNames
JoinedFields(x) ==
    LET n == Cardinality(FieldsSet(x))
    IN  join([i \in 1..n |-> objs[x][FieldNames[4 - n + i]]], ".")

\* C10: the fields are the last tokens of the input: with four or more
\* tokens all four are set and the input is those four, preceded by any
\* leading tokens; with fewer tokens the input is exactly the fields set,
\* which are the last ones in the order major, minor, micro, prerelease.
C10_FieldsAreTrailingTokens ==
    \A x \in DOMAIN objs :
        LET v == args[x].version
            J == JoinedFields(x)
        IN  /\ 4 \in FieldsSet(x)
            /\ \A i \in FieldsSet(x) : \A j \in i..4 : j \in FieldsSet(x)
            /\ \A i \in FieldsSet(x) : "." \notin Range(objs[x][FieldNames[i]])
            /\ IF FieldsSet(x) = 1..4
               THEN \/ v = J
                    \/ /\ Len(v) > Len(J)
                       /\ SubSeq(v, Len(v) - Len(J), Len(v)) = <<".">> \o J
               ELSE v = J

C10_Witness ==
    \E x \in DOMAIN objs, y \in DOMAIN objs :
        /\ TokenCount(args[x].version) > 4
        /\ objs[x]["major"] = <<"0">>
        /\ TokenCount(args[y].version) = 2
        /\ DOMAIN objs[y] \cap Range(FieldNames) = {"micro", "prerelease"}

====
